---- MODULE Spec2Model ----
(***************************************************************************)
(* A model of SUSE/open_prs/open_prs.py: the settings loader, the          *)
(* credential resolution, the per-user fetch / filter / render loop and    *)
(* the age classification of a pull request.                               *)
(*                                                                         *)
(* Python values are modelled as follows.  None is the string None; a     *)
(* TOML document is a record with the set of keys it defines; a list is a  *)
(* sequence; a line printed by print() is a record naming what was         *)
(* printed.  Time is counted in ticks, TicksPerDay ticks to the day.       *)
(***************************************************************************)
EXTENDS Integers, Sequences, FiniteSets, TLC

\* ------------------------------------------------------------------ bounds

\* The longest list of pull requests a fetch response carries.
MaxNodes == 2

\* How many ticks the wall clock may advance during one run.
MaxClock == 1

\* The resolution of the clock: ticks per day.
TicksPerDay == 2

\* --------------------------------------------------------- program constants

\* get_colour_coding_for_pr(pr, days=14)
days == 14

\* "=" * 80 and "-" * 80
RuleWidth == 80

\* class bcolors
OKBLUE == "OKBLUE"

OKGREEN == "OKGREEN"

FAIL == "FAIL"

\* Python's None.
None == "None"

\* not x, for x a string or None
Not(x) == x = None \/ x = ""

\* get_settings: the candidate paths, in the order they are searched.
paths ==
  << "./.open_prs.toml", "./open_prs.toml", "~/.open_prs.toml",
     "~/.config/open_prs.toml", "/etc/open_prs.toml" >>

PathIds == 1..Len(paths)

\* ------------------------------------------------------ the settings files

Range(s) == {s[k] : k \in 1..Len(s)}

Doc(malformed, keys, us, rs, tok) ==
  [malformed |-> malformed, keys |-> keys, usernames |-> us, repos |-> rs,
   github_token |-> tok]

\* A file toml.load cannot parse.
DocMalformed == Doc(TRUE, {}, <<>>, <<>>, None)

\* An empty file: toml.load returns {}.
DocEmpty == Doc(FALSE, {}, <<>>, <<>>, None)

DocUsersOnly == Doc(FALSE, {"usernames"}, <<"alice">>, <<>>, None)

DocReposAndToken ==
  Doc(FALSE, {"repos", "github_token"}, <<>>, <<"org/repo1">>, "cfgtok")

DocA ==
  Doc(FALSE, {"usernames", "repos"}, <<"alice", "bob">>, <<"org/repo1">>, None)

DocB ==
  Doc(FALSE, {"usernames", "repos", "github_token"}, <<"bob">>,
      <<"org/repo2", "org/repo1">>, "cfgtok")

DocC ==
  Doc(FALSE, {"usernames", "repos", "github_token"}, <<"alice">>,
      <<"org/repo1">>, "")

Docs ==
  {DocMalformed, DocEmpty, DocUsersOnly, DocReposAndToken, DocA, DocB, DocC}

\* What a candidate path names: nothing, a directory, a symbolic link to a
\* regular file, or a regular file.
PathStates ==
  {[kind |-> "missing", doc |-> DocEmpty], [kind |-> "dir", doc |-> DocEmpty],
   [kind |-> "symlink", doc |-> DocB]}
  \cup {[kind |-> "file", doc |-> d] : d \in Docs}

\* os.path.isfile follows symbolic links.
isfile(ps) == ps.kind \in {"file", "symlink"}

isdir(ps) == ps.kind = "dir"

islink(ps) == ps.kind = "symlink"

\* The condition of line 103.
IsCandidate(ps) == isfile(ps) /\ ~isdir(ps) /\ ~islink(ps)

LoadedFirstMatch(settings, d) == IF settings = <<>> THEN <<d>> ELSE settings

\* Line 104: settings after toml.load of a candidate holding document d.
\* settings is <<>> for None and <<d>> for the dict of document d.
Loaded(settings, d) == <<d>>

\* not settings: None, or a dict with no key.
NotSettings(settings) == settings = <<>> \/ settings[1].keys = {}

NotFoundLine == [kind |-> "notfound", paths |-> paths]

Result(outcome, code, us, rs, tok, o, e) ==
  [outcome |-> outcome, code |-> code, usernames |-> us, repos |-> rs,
   github_token |-> tok, out |-> o, err |-> e]

\* Lines 105-119 of get_settings, on the settings the loop left.
check_settings(settings) ==
  IF NotSettings(settings)
  THEN Result("exit", 3, <<>>, <<>>, None, <<NotFoundLine>>, <<>>)
  ELSE IF "usernames" \notin settings[1].keys
  THEN Result("exit", 2, <<>>, <<>>, None, <<>>, <<"usernames missing">>)
  ELSE IF "repos" \notin settings[1].keys
  THEN Result("exit", 2, <<>>, <<>>, None, <<>>, <<"repos missing">>)
  ELSE Result("return", 0, settings[1].usernames, settings[1].repos,
              IF "github_token" \in settings[1].keys
              THEN settings[1].github_token ELSE None,
              <<>>, <<>>)

\* What the candidate paths held when the loader looked at them: whether any
\* was a regular file, the document of the last such file, how many there
\* were, and whether an earlier one held a different document.
NothingSeen == [any |-> FALSE, last |-> DocEmpty, shadowed |-> FALSE]

Seen(d, ps) ==
  IF ps.kind # "file" THEN d
  ELSE [any |-> TRUE, last |-> ps.doc,
        shadowed |-> d.any /\ (d.shadowed \/ d.last # ps.doc)]

\* ------------------------------------------------------- the hosting platform

Threshold == days * TicksPerDay

\* The wall clock when the program starts, and the latest it gets.
ClockStart == Threshold

ClockEnd == ClockStart + MaxClock

\* createdAt as the platform sends it, and dateutil's parser.parse of it.
CreatedAts == {[day |-> 0, tick |-> 0], [day |-> 0, tick |-> 1]}

parse(createdAt) == createdAt.day * TicksPerDay + createdAt.tick

RepoNames == {"org/repo1", "org/repo2"}

NodeKinds == RepoNames \X CreatedAts

\* One node of pullRequests.nodes; number, title and url are the node's
\* position in the response, so that no two nodes of a response agree.
Node(k, n) ==
  [repository |-> [nameWithOwner |-> k[1]], createdAt |-> k[2], number |-> n,
   title |-> n, url |-> n]

NodeLists ==
  UNION {{[n \in 1..len |-> Node(ks[n], n)] : ks \in [1..len -> NodeKinds]} :
         len \in 0..MaxNodes}

DisplayName(login) == IF login = "alice" THEN "Alice" ELSE "Bob"

\* r.json(): a well-formed response for login, or one without data.user.
Responses(login) ==
  {[ok |-> TRUE, name |-> DisplayName(login), nodes |-> ns] : ns \in NodeLists}
  \cup {[ok |-> FALSE, name |-> None, nodes |-> <<>>]}

NoData == [ok |-> FALSE, name |-> None, nodes |-> <<>>]

\* ------------------------------------------------------------ pure functions

ListContainsAnything(xs, x) == TRUE

\* x in xs, for a list xs (lines 126 and 147).
ListContains(xs, x) == \E k \in 1..Len(xs) : xs[k] = x

filter_prs_keep_all(pull_requests, rs) == pull_requests

RECURSIVE filter_prs_by_repos(_, _)
filter_prs_by_repos(pull_requests, rs) ==
  IF pull_requests = <<>> THEN <<>>
  ELSE LET pull_request == Head(pull_requests)
           rest == filter_prs_by_repos(Tail(pull_requests), rs)
       IN  IF ListContains(rs, pull_request.repository.nameWithOwner)
           THEN <<pull_request>> \o rest
           ELSE rest

\* timedelta(days=days), in ticks.
timedelta(d) == d * TicksPerDay

get_colour_coding_at_least(pr, t) ==
  IF t - parse(pr.createdAt) >= timedelta(days) THEN FAIL ELSE OKGREEN

\* get_colour_coding_for_pr(pr), when datetime.now() returns t.
get_colour_coding_for_pr(pr, t) ==
  LET created_at == parse(pr.createdAt)
      age == t - created_at
  IN  IF age > timedelta(days) THEN FAIL ELSE OKGREEN

\* ---------------------------------------------------------------- the lines

HeaderLine(name) == [kind |-> "header", colour |-> OKBLUE, text |-> name]

Rule(char) == [kind |-> "rule", char |-> char, width |-> RuleWidth]

NoPRLine == [kind |-> "text", text |-> "No pull requests!"]

TitleLine(colour, title) ==
  [kind |-> "title", colour |-> colour, text |-> title]

LinkLine(url) == [kind |-> "link", text |-> url]

\* print("\n"): an empty line, and print's own line break after it.
BlankLine == [kind |-> "text", text |-> "\n"]

\* Lines 139-143: the head of a user's report.
ReportHeadSilent(name, prs) == <<HeaderLine(name), Rule("=")>>

ReportHead(name, prs) ==
  <<HeaderLine(name), Rule("=")>>
  \o (IF Len(prs) = 0 THEN <<NoPRLine>> ELSE <<>>)

ReportEntryAlwaysRule(prs, idx, rs, t) ==
  LET pr == prs[idx + 1]
  IN  <<TitleLine(get_colour_coding_for_pr(pr, t), pr.title),
        LinkLine(pr.url), Rule("-")>>

\* Lines 145-155: one pass of the loop body, for the pull request at 0-based
\* position idx of prs, when datetime.now() returns t.
ReportEntry(prs, idx, rs, t) ==
  LET pr == prs[idx + 1]
      repo == pr.repository.nameWithOwner
  IN  IF ~ListContains(rs, repo) THEN <<>>
      ELSE <<TitleLine(get_colour_coding_for_pr(pr, t), pr.title),
             LinkLine(pr.url)>>
           \o (IF idx + 1 = Len(prs) THEN <<BlankLine>> ELSE <<Rule("-")>>)

\* ------------------------------------------------------------------- state

VARIABLES
  pc,             \* where the script is
  exit_code,      \* the exit status, once pc = "exit"
  traceback,      \* the run ended with an uncaught exception
  out,            \* the lines printed to standard output
  err,            \* the lines printed to standard error
  environ,        \* os.environ.get('GITHUB_TOKEN_GALAXY')
  disk,           \* what the candidate paths held when get_settings looked
  p,              \* the candidate paths the loader has been through
  settings,       \* get_settings' settings: <<>> for None, <<d>> for a dict
  usernames,
  repos,
  api_token,
  requests,       \* the queries sent, in order: login and credential
  u,              \* the usernames the outer loop has finished
  data,           \* the last response
  pull_requests,
  i,              \* the passes of the inner loop made for the current user
  clock,          \* the wall clock
  now             \* what datetime.now() last returned

vars ==
  <<pc, exit_code, traceback, out, err, environ, disk, p, settings, usernames,
    repos, api_token, requests, u, data, pull_requests, i, clock, now>>

Init ==
  /\ pc = "main"
  /\ exit_code = 0
  /\ traceback = FALSE
  /\ out = <<>>
  /\ err = <<>>
  /\ environ \in {None, "", "envtok"}
  /\ disk = NothingSeen
  /\ p = 0
  /\ settings = <<>>
  /\ usernames = <<>>
  /\ repos = <<>>
  /\ api_token = None
  /\ requests = <<>>
  /\ u = 0
  /\ data = NoData
  /\ pull_requests = <<>>
  /\ i = 0
  /\ clock = ClockStart
  /\ now = ClockStart

Exit(code, tb) ==
  /\ pc' = "exit"
  /\ exit_code' = code
  /\ traceback' = tb

\* Lines 101-104: one pass of get_settings' loop, over what path p + 1 names.
LoadPath ==
  /\ pc = "main"
  /\ p < Len(paths)
  /\ \E ps \in PathStates :
       /\ disk' = Seen(disk, ps)
       /\ IF IsCandidate(ps)
          THEN IF ps.doc.malformed
               THEN /\ Exit(1, TRUE)
                    /\ UNCHANGED settings
               ELSE /\ settings' = Loaded(settings, ps.doc)
                    /\ UNCHANGED <<pc, exit_code, traceback>>
          ELSE UNCHANGED <<pc, exit_code, traceback, settings>>
  /\ p' = p + 1
  /\ UNCHANGED <<out, err, environ, usernames, repos, api_token, requests, u,
                 data, pull_requests, i, clock, now>>

\* Lines 105-119 and 131: usernames, repos, api_token = get_settings()
CheckSettings ==
  /\ pc = "main"
  /\ p = Len(paths)
  /\ LET r == check_settings(settings)
     IN  /\ out' = out \o r.out
         /\ err' = err \o r.err
         /\ IF r.outcome = "return"
            THEN /\ usernames' = r.usernames
                 /\ repos' = r.repos
                 /\ api_token' = r.github_token
                 /\ pc' = "token"
                 /\ UNCHANGED <<exit_code, traceback>>
            ELSE /\ Exit(r.code, FALSE)
                 /\ UNCHANGED <<usernames, repos, api_token>>
  /\ UNCHANGED <<environ, disk, p, settings, requests, u, data, pull_requests,
                 i, clock, now>>

ResolvedTokenEnvFirst(tok, env) == IF Not(env) THEN tok ELSE env

\* Lines 132-133: the credential after the fallback to the environment.
ResolvedToken(tok, env) == IF Not(tok) THEN env ELSE tok

\* Lines 132-136.
ResolveToken ==
  /\ pc = "token"
  /\ LET tok == ResolvedToken(api_token, environ)
     IN  /\ api_token' = tok
         /\ IF Not(tok)
            THEN /\ Exit(1, FALSE)
                 /\ err' = err \o <<"token missing">>
            ELSE /\ pc' = "for"
                 /\ UNCHANGED <<exit_code, traceback, err>>
  /\ UNCHANGED <<out, environ, disk, p, settings, usernames, repos, requests,
                 u, data, pull_requests, i, clock, now>>

NextUserSkipping(n) == n + 2

\* The usernames finished once the outer loop has finished one more than n.
NextUser(n) == n + 1

\* Line 138: the query is sent and a response comes back.
Fetch ==
  /\ pc = "for"
  /\ u < Len(usernames)
  /\ LET username == usernames[u + 1]
     IN  /\ requests' =
               Append(requests, [login |-> username, token |-> api_token])
         /\ \E r \in Responses(username) : data' = r
  /\ pc' = "header"
  /\ UNCHANGED <<exit_code, traceback, out, err, environ, disk, p, settings,
                 usernames, repos, api_token, u, pull_requests, i, clock,
                 now>>

\* Line 138: requests.post or r.json() throws.
FetchRaises ==
  /\ pc = "for"
  /\ u < Len(usernames)
  /\ requests' =
       Append(requests, [login |-> usernames[u + 1], token |-> api_token])
  /\ Exit(1, TRUE)
  /\ UNCHANGED <<out, err, environ, disk, p, settings, usernames, repos,
                 api_token, u, data, pull_requests, i, clock, now>>

\* Lines 139-143; a response without data.user throws at line 139.
BeginReport ==
  /\ pc = "header"
  /\ IF ~data.ok
     THEN /\ Exit(1, TRUE)
          /\ UNCHANGED <<out, pull_requests, i>>
     ELSE LET prs == filter_prs_by_repos(data.nodes, repos)
          IN  /\ pull_requests' = prs
              /\ out' = out \o ReportHead(data.name, prs)
              /\ i' = 0
              /\ pc' = "prs"
              /\ UNCHANGED <<exit_code, traceback>>
  /\ UNCHANGED <<err, environ, disk, p, settings, usernames, repos, api_token,
                 requests, u, data, clock, now>>

\* Lines 144-155: one pass of the inner loop.
RenderPR ==
  /\ pc = "prs"
  /\ i < Len(pull_requests)
  /\ now' = IF ReportEntry(pull_requests, i, repos, clock) = <<>> THEN now
            ELSE clock
  /\ out' = out \o ReportEntry(pull_requests, i, repos, clock)
  /\ i' = i + 1
  /\ UNCHANGED <<pc, exit_code, traceback, err, environ, disk, p, settings,
                 usernames, repos, api_token, requests, u, data,
                 pull_requests, clock>>

\* Line 144 finds the list exhausted: on to the next username.
EndReport ==
  /\ pc = "prs"
  /\ i = Len(pull_requests)
  /\ u' = NextUser(u)
  /\ pc' = "for"
  /\ UNCHANGED <<exit_code, traceback, out, err, environ, disk, p, settings,
                 usernames, repos, api_token, requests, data, pull_requests,
                 i, clock, now>>

\* Line 137 finds usernames exhausted: the script ends.
Finish ==
  /\ pc = "for"
  /\ u >= Len(usernames)
  /\ Exit(0, FALSE)
  /\ UNCHANGED <<out, err, environ, disk, p, settings, usernames, repos,
                 api_token, requests, u, data, pull_requests, i, clock, now>>

\* Time passes while the script runs.
Tick ==
  /\ pc # "exit"
  /\ clock < ClockEnd
  /\ clock' = clock + 1
  /\ UNCHANGED <<pc, exit_code, traceback, out, err, environ, disk, p,
                 settings, usernames, repos, api_token, requests, u, data,
                 pull_requests, i, now>>

Step ==
  \/ LoadPath
  \/ CheckSettings
  \/ ResolveToken
  \/ Fetch
  \/ FetchRaises
  \/ BeginReport
  \/ RenderPR
  \/ EndReport
  \/ Finish

Next == Step \/ Tick

Spec == Init /\ [][Next]_vars

\* The interpreter runs the script to its end; the clock is not the script's.
FairSpec == Spec /\ WF_vars(Step)

\* ------------------------------------------------------------------ claims

\* get_settings has returned to the script (line 131 is done).
Returned ==
  /\ pc # "main"
  /\ pc = "exit" => exit_code \notin {2, 3} /\ (traceback => requests # <<>>)

\* The lines of the report in progress: out from its last header on.
HeaderIds == {k \in 1..Len(out) : out[k].kind = "header"}

MaxOf(S) == CHOOSE m \in S : \A x \in S : x <= m

Section ==
  IF HeaderIds = {} THEN <<>>
  ELSE SubSeq(out, MaxOf(HeaderIds), Len(out))

\* The positions of the nodes of the last response that lie in a configured
\* repository, and the j-th of them.
Matching ==
  {k \in 1..Len(data.nodes) :
     data.nodes[k].repository.nameWithOwner \in Range(repos)}

Nth(S, j) == CHOOSE m \in S : Cardinality({x \in S : x <= m}) = j

Ticks(createdAt) == createdAt.day * TicksPerDay + createdAt.tick

\* C1: filter_prs_by_repos(P, R) is exactly the elements of P whose
\* repository.nameWithOwner is a member of R, in their original order, none
\* duplicated, dropped or reordered: the j-th element returned is the j-th
\* matching element of P.
C1_FilterExact ==
  pc = "prs" =>
    /\ Len(pull_requests) = Cardinality(Matching)
    /\ \A j \in 1..Len(pull_requests) :
         pull_requests[j] = data.nodes[Nth(Matching, j)]

\* The filter has dropped the first node and kept a later one.
C1_Witness ==
  /\ pc = "prs"
  /\ Len(data.nodes) >= 2
  /\ 1 \notin Matching
  /\ Len(pull_requests) >= 1

\* C2: with the default threshold of 14 days, the colour of the title printed
\* last is the failure colour exactly when the time datetime.now() returned
\* minus the creation time is strictly greater than 14 days; at exactly 14
\* days, or less, it is the success colour.
C2_StaleIffOlder ==
  pc = "prs" /\ i >= 1 =>
    LET line == out[Len(out) - 2]
        age == now - Ticks(pull_requests[i].createdAt)
    IN  /\ line.kind = "title"
        /\ line.colour = (IF age > 14 * TicksPerDay THEN FAIL ELSE OKGREEN)

\* A pull request exactly 14 days old has just been printed, in green.
C2_Witness ==
  /\ pc = "prs"
  /\ i >= 1
  /\ now - Ticks(pull_requests[i].createdAt) = 14 * TicksPerDay
  /\ out[Len(out) - 2].colour = OKGREEN

\* C3: a title or link line of the report in progress is that of a pull
\* request whose repository is a member of the configured repos; a fetched
\* pull request of another repository is never printed.
C3_OnlyConfiguredRepos ==
  pc = "prs" =>
    \A k \in 1..Len(Section) :
      Section[k].kind \in {"title", "link"} =>
        data.nodes[Section[k].text].repository.nameWithOwner \in Range(repos)

\* A report is complete that shows a pull request, while the response held
\* one of a repository outside repos.
C3_Witness ==
  /\ pc = "prs"
  /\ i = Len(pull_requests)
  /\ i >= 1
  /\ Cardinality(Matching) < Len(data.nodes)
  /\ \E k \in 1..Len(Section) : Section[k].kind = "title"

\* C4: the settings get_settings returns are those of the last candidate that
\* is a regular file: usernames, repos and github_token all come from that
\* file, and a key it lacks is not taken from an earlier file.
C4_LastFileWins ==
  Returned =>
    /\ usernames = disk.last.usernames
    /\ repos = disk.last.repos
    /\ pc = "token" =>
         api_token = (IF "github_token" \in disk.last.keys
                      THEN disk.last.github_token ELSE None)

\* get_settings returned the last file's settings, which has no github_token,
\* although an earlier regular file held another document.
C4_Witness ==
  /\ pc = "token"
  /\ disk.shadowed
  /\ "github_token" \notin disk.last.keys

\* C5: the run ends with exit code 3 exactly when no candidate path is a
\* regular, non-symlink file, and then the searched paths are printed; when
\* one is, whatever its contents, the exit code is not 3.
C5_Exit3IffNoFile ==
  pc = "exit" =>
    /\ exit_code = 3 <=> ~disk.any
    /\ exit_code = 3 => out = <<NotFoundLine>>

\* C6: if the winning file lacks usernames or lacks repos, the run ends with
\* exit code 2, whatever the credential, before any fetch and before any line
\* on standard output.
C6_IncompleteExits2 ==
  /\ pc # "main"
  /\ disk.any
  /\ ~disk.last.malformed
  /\ ~({"usernames", "repos"} \subseteq disk.last.keys)
  => /\ pc = "exit"
     /\ exit_code = 2
     /\ requests = <<>>
     /\ out = <<>>

\* What the configuration supplies as credential, and whether it is one.
ConfigToken ==
  IF "github_token" \in disk.last.keys THEN disk.last.github_token ELSE None

\* C7 as stated: every fetch uses the config's github_token when that key is
\* present, otherwise GITHUB_TOKEN_GALAXY; with no github_token key and the
\* variable unset, a complete config ends the run with exit code 1 and no
\* fetch.
C7_KeyPresentWins ==
  Returned =>
    /\ \A k \in 1..Len(requests) :
         requests[k].token =
           (IF "github_token" \in disk.last.keys THEN disk.last.github_token
            ELSE environ)
    /\ ("github_token" \notin disk.last.keys /\ environ = None) =>
         /\ requests = <<>>
         /\ pc \in {"token", "exit"}
         /\ pc = "exit" => exit_code = 1 /\ ~traceback

\* C7, amended: every fetch uses the config's github_token when that key is
\* present with a non-empty value, otherwise GITHUB_TOKEN_GALAXY; when the
\* config gives no such value and the variable is unset or empty, a complete
\* config ends the run with exit code 1 and no fetch.
C7_NonEmptyKeyWins ==
  Returned =>
    /\ \A k \in 1..Len(requests) :
         /\ requests[k].token =
              (IF ConfigToken \notin {None, ""} THEN ConfigToken ELSE environ)
         /\ requests[k].token \notin {None, ""}
    /\ (ConfigToken \in {None, ""} /\ environ \in {None, ""}) =>
         /\ requests = <<>>
         /\ pc \in {"token", "exit"}
         /\ pc = "exit" => exit_code = 1 /\ ~traceback

\* A fetch was made with the credential of the environment, the config's
\* github_token being present and empty.
C7_Witness ==
  /\ requests # <<>>
  /\ "github_token" \in disk.last.keys
  /\ disk.last.github_token = ""
  /\ requests[1].token = environ

\* C8: for a user whose response holds no pull request of a configured repo,
\* the report is the header, the rule under it and the "No pull requests!"
\* message: no title, no link and no separator of dashes.
C8_NoPullRequests ==
  pc = "prs" /\ Matching = {} =>
    /\ Section = <<HeaderLine(data.name), Rule("="), NoPRLine>>
    /\ \A k \in 1..Len(Section) : Section[k] # Rule("-")

\* A user's report is complete whose response held pull requests, none of a
\* configured repo.
C8_Witness ==
  /\ pc = "prs"
  /\ Matching = {}
  /\ data.nodes # <<>>
  /\ i = Len(pull_requests)
  /\ Section[Len(Section)] = NoPRLine

\* C9, the order of the fetches: the queries sent are those of the first
\* usernames, in configuration order, one each; a query is sent only when the
\* report of the user before is complete; the run ends with exit code 0 only
\* after one query for every username.
C9_Order ==
  /\ Len(requests) <= Len(usernames)
  /\ \A k \in 1..Len(requests) : requests[k].login = usernames[k]
  /\ pc = "for" => Len(requests) = u /\ i = Len(pull_requests)
  /\ pc \in {"header", "prs"} => Len(requests) = u + 1
  /\ pc = "exit" /\ exit_code = 0 => Len(requests) = Len(usernames)

\* C9: with a complete config and a credential, the run sends one query per
\* username, in order and never during a report, and, every response being
\* well formed, it ends with exit code 0 (a run that ends otherwise ended with
\* the uncaught exception of a failed fetch).
C9_SequentialAndTerminates ==
  /\ []C9_Order
  /\ (pc = "for") ~> (pc = "exit" /\ (exit_code = 0 \/ traceback))

\* A run of two users ended with exit code 0, one of them with no pull
\* request to show.
C9_Witness ==
  /\ pc = "exit"
  /\ exit_code = 0
  /\ Len(requests) = 2
  /\ \E k \in 1..Len(out) : out[k] = NoPRLine

\* C10: for a user with n >= 1 filtered pull requests, after j passes the
\* report is the header, the rule under it and, for each of the first j pull
\* requests in filtered order, its title, its link and then a rule of 80
\* dashes, or, after the last of the n, print("\n") instead: n - 1 dash
\* rules in all.  A title has the colour of its own pull request's age.
C10_Layout ==
  pc = "prs" /\ Len(pull_requests) >= 1 =>
    /\ Len(Section) = 2 + 3 * i
    /\ \A j \in 1..i :
         LET pr == pull_requests[j]
             title == Section[3 * j]
         IN  /\ title.kind = "title"
             /\ title.text = pr.title
             /\ title.colour \in {OKGREEN, FAIL}
             /\ title.colour = FAIL =>
                  now - Ticks(pr.createdAt) > 14 * TicksPerDay
             /\ title.colour = OKGREEN =>
                  ClockStart - Ticks(pr.createdAt) <= 14 * TicksPerDay
             /\ Section[3 * j + 1] = LinkLine(pr.url)
             /\ Section[3 * j + 2] =
                  (IF j = Len(pull_requests) THEN BlankLine
                   ELSE [kind |-> "rule", char |-> "-", width |-> 80])
    /\ i = Len(pull_requests) =>
         Cardinality({k \in 1..Len(Section) : Section[k] = Rule("-")})
           = Len(pull_requests) - 1

\* A report of two pull requests or more is complete, a stale one in red and
\* a fresh one in green.
C10_Witness ==
  /\ pc = "prs"
  /\ i = Len(pull_requests)
  /\ i >= 2
  /\ \E j, k \in 1..i :
       /\ Section[3 * j].colour = FAIL
       /\ Section[3 * k].colour = OKGREEN

====
